---- MODULE Spec2Model ----
(***************************************************************************)
(* The Deep Research panel of ShootingStar                                 *)
(* (src/src/components/DeepResearch.tsx): one React component holding a    *)
(* session (useState), an abort flag (useRef) and any number of            *)
(* startResearch invocations that are suspended at a provider call.        *)
(* Every await of the source is a position of a run; the code between two  *)
(* awaits runs to completion on the JavaScript event loop and is one       *)
(* action.  The query and the Brave API key are taken as present           *)
(* (line 241 returns before touching any state otherwise).                 *)
(*                                                                         *)
(* The Model Council panel (src/unnamed/part_006, the ModelCouncilPanel    *)
(* that App.tsx mounts) is modelled the same way in the second half: its   *)
(* session, selection and abort flag, and the startCouncil invocations     *)
(* suspended at Promise.all or at the consensus call.  The two panels      *)
(* share no state; Spec runs the research panel with the council panel at  *)
(* rest and CouncilSpec the council panel with the research panel at rest. *)
(***************************************************************************)
EXTENDS Integers, Sequences, FiniteSets, TLC

\* ---------------------------------------------------------------- bounds
MaxRuns == 2        \* startResearch invocations in one behaviour
MaxPlanLines == 1   \* non-empty lines in a successful planning reply
MaxGapLines == 3    \* non-empty lines in a successful gap-analysis reply
MaxResults == 1     \* results in a successful Brave reply
MaxCouncils == 2    \* startCouncil invocations in one behaviour
MaxToggles == 1     \* toggleModel calls in one behaviour
MaxServiceRuns == 2 \* runCouncil invocations in one behaviour
MaxServiceVotes == 4 \* voteForBest calls on one result
MaxAborts == 1      \* abortAll calls in one behaviour
MaxProvided == 4    \* results in one Brave reply, with their urls kept
MaxSourceSearches == 1 \* sub-queries of one search step, with urls kept

\* The keyword heuristics: responses given to a call, and words of a
\* response.
MaxKwResponses == 3
MaxKwWords == 2

\* The deep-research service: executeResearch calls, options.maxSteps and
\* the words of a query.
MaxResearchCalls == 2
MaxSteps == 2
MaxQueryWords == 4

\* withRetry: the largest options.maxRetries given.
MaxRetryLimit == 2

\* ------------------------------------------------------ program constants
FallbackPlanLen == 4   \* the four template sub-queries of the fallback plan
MaxGapsKept == 2       \* .slice(0, 2) of identifyGaps
EnrichTop == 3         \* sources.slice(0, 3) of enrichSources
MaxSelected == 3       \* toggleModel keeps at most three ids selected
MinSelected == 2       \* startCouncil needs two selected ids
MinValid == 2          \* consensus needs two completed responses

Runs == 1..MaxRuns

VARIABLES
  session,     \* useState<ResearchSession | null>
  abortRef,    \* useRef(false): abortRef.current
  tabLoading,  \* the tab's isLoading, written through onUpdateTab
  run,         \* per startResearch invocation: its position and locals
  nRuns,       \* number of startResearch invocations so far
  stopped,     \* history: stopResearch was called while the run was live
  searchFailed \* history: a braveSearch call of the run failed

VARIABLES
  selectedModels,   \* useState<string[]> of the council panel
  council,          \* useState<CouncilSession | null> of the council panel
  councilAbortRef,  \* useRef(false) of the council panel: abortRef.current
  councilLoading,   \* the council tab's isLoading, written through onUpdateTab
  councilRun,       \* per startCouncil invocation: its position and calls
  nCouncils,        \* startCouncil invocations that passed the guard of line 214
  nToggles,         \* toggleModel calls so far
  councilStopped    \* history: stopCouncil was called on the session of the run

VARIABLES
  abortControllers, \* Map<string, AbortController>: per id the invocation
                    \* whose controller is stored, 0 for none
  serviceRun,       \* per runCouncil invocation: its position and result
  nServiceRuns,     \* runCouncil invocations so far
  votingResults,    \* votingResults of the result voteForBest is applied to
  bestResponseId,   \* bestResponseId of that result
  activeVote,       \* history: the id of the most recent voteForBest call
  nServiceVotes,    \* voteForBest calls so far
  nAborts           \* abortAll calls so far

VARIABLES
  allSources,    \* the allSources local of startResearch: the urls, in order
  provided,      \* history: per search step the urls braveSearch returned
  searchesLeft,  \* sub-queries the current loop has still to search
  srcStep,       \* where startResearch is between planning and synthesis
  stepSources    \* per search step the sources written with its result

rvars == <<session, abortRef, tabLoading, run, nRuns, stopped, searchFailed>>

cvars == <<selectedModels, council, councilAbortRef, councilLoading,
           councilRun, nCouncils, nToggles, councilStopped>>

svcvars == <<abortControllers, serviceRun, nServiceRuns, votingResults,
             bestResponseId, activeVote, nServiceVotes, nAborts>>

srcvars == <<allSources, provided, searchesLeft, srcStep, stepSources>>

\* The consensus keyword heuristics (part_006, lines 328-345, and
\* modelCouncil.ts, lines 238-259).
VARIABLES
  kwResponses,   \* the responses argument of the call
  kwHighlights,  \* <<>>, or the value getConsensusHighlights returned
  kwConsensus    \* <<>>, or the value analyzeConsensus returned

kwvars == <<kwResponses, kwHighlights, kwConsensus>>

\* The deep-research service (part_011).
VARIABLES
  abortController,  \* this.abortController: 0 for null, else the call whose
                    \* controller is stored
  signalAborted,    \* per executeResearch call: signal.aborted of its controller
  researchCall,     \* per executeResearch call: its position and locals
  nResearchCalls,   \* executeResearch calls made
  abortSeen         \* history: abort() was called while the call was in progress

drvars == <<abortController, signalAborted, researchCall, nResearchCalls, abortSeen>>

\* withRetry (retry.ts).
VARIABLES
  retryOpts,     \* opts: maxRetries and shouldRetry
  attempt,       \* the loop variable
  retryPc,       \* idle, calling (await fn()), waiting (await the timer),
                 \* resolved or rejected
  lastError,     \* <<>> while unassigned, else <<the error>>
  retryOutcome,  \* <<>>, else <<the value returned or the error thrown>>
  fnOutcomes     \* history: what each call of fn returned or threw, in order

retryvars == <<retryOpts, attempt, retryPc, lastError, retryOutcome, fnOutcomes>>

vars == <<rvars, cvars, svcvars, srcvars, kwvars, drvars, retryvars>>

Null == [null |-> TRUE]

StepIds == <<"plan", "search-1", "analyze-1", "followup", "search-2", "synthesize">>

Min(a, b) == IF a < b THEN a ELSE b

\* ----------------------------------------------------------- the session
newSession(id) ==
  [ id          |-> id,
    steps       |-> [k \in 1..Len(StepIds) |->
                       [id |-> StepIds[k], status |-> "pending", result |-> ""]],
    finalReport |-> <<>>,
    isRunning   |-> TRUE,
    endTime     |-> FALSE ]

\* A mis-written step update that forgets the id test and marks every step.
updateStepStatusAll(prev, stepId, status) ==
  IF prev = Null THEN Null
  ELSE [prev EXCEPT !.steps = [k \in DOMAIN prev.steps |->
                                 [prev.steps[k] EXCEPT !.status = status]]]

updateStepStatus(prev, stepId, status) ==
  IF prev = Null THEN Null
  ELSE [prev EXCEPT !.steps = [k \in DOMAIN prev.steps |->
                                 IF prev.steps[k].id = stepId
                                   THEN [prev.steps[k] EXCEPT !.status = status]
                                   ELSE prev.steps[k]]]

updateStepResult(prev, stepId, result) ==
  IF prev = Null THEN Null
  ELSE [prev EXCEPT !.steps = [k \in DOMAIN prev.steps |->
                                 IF prev.steps[k].id = stepId
                                   THEN [prev.steps[k] EXCEPT !.result = result]
                                   ELSE prev.steps[k]]]

\* The catch block that forgets to clear isRunning.
catchErrorKeepsRunning(prev) == prev

\* catch (error) { setSession(prev => prev ? { ...prev, isRunning: false } : null) }
catchError(prev) ==
  IF prev = Null THEN Null ELSE [prev EXCEPT !.isRunning = FALSE]

setFinalReport(prev, report) ==
  IF prev = Null THEN Null
  ELSE [prev EXCEPT !.finalReport = <<report>>, !.isRunning = FALSE, !.endTime = TRUE]

\* session?.isRunning, as the render reads it.
IsRunning == IF session = Null THEN FALSE ELSE session.isRunning

\* ------------------------------------------------------- provider replies
\* A language-model reply: the call fails (network error, malformed body),
\* or returns a content string; lines is the number of non-empty lines of it.
ModelReplies(maxLines) ==
  {[ok |-> FALSE, content |-> "", lines |-> 0],
   [ok |-> TRUE, content |-> "", lines |-> 0]}
  \cup {[ok |-> TRUE, content |-> "text", lines |-> n] : n \in 1..maxLines}

\* A Brave reply: the call fails, or returns n results.
SearchReplies ==
  {[ok |-> FALSE, n |-> 0]} \cup {[ok |-> TRUE, n |-> n] : n \in 0..MaxResults}

\* ------------------------------------------------------ the four helpers
\* Each returns what the await yields: a value, or threw = TRUE when the
\* helper lets the exception out to startResearch's try block.
createResearchPlan(reply) ==
  IF reply.ok THEN [threw |-> FALSE, n |-> reply.lines]
  ELSE [threw |-> FALSE, n |-> FallbackPlanLen]

braveSearch(reply) ==
  IF reply.ok THEN [threw |-> FALSE, n |-> reply.n]
  ELSE [threw |-> TRUE, n |-> 0]

\* The number of page fetches enrichSources dispatches.
enrichSources(n) == Min(n, EnrichTop)

\* A summariser whose catch block is missing.
summarizeNoCatch(reply) ==
  IF reply.ok
    THEN [threw |-> FALSE,
          summary |-> IF reply.content # "" THEN reply.content ELSE "Summary not available"]
    ELSE [threw |-> TRUE, summary |-> ""]

\* The second half of executeSearch: the summary of one sub-query.
summarize(reply) ==
  IF reply.ok
    THEN [threw |-> FALSE,
          summary |-> IF reply.content # "" THEN reply.content ELSE "Summary not available"]
    ELSE [threw |-> FALSE, summary |-> "Found sources"]

identifyGaps(reply) ==
  IF reply.ok THEN [threw |-> FALSE, n |-> Min(reply.lines, MaxGapsKept)]
  ELSE [threw |-> FALSE, n |-> 0]

\* A synthesiser that returns the model's content as it is.
synthesizeReportNoFallback(reply) ==
  IF reply.ok THEN [threw |-> FALSE, report |-> reply.content]
  ELSE [threw |-> FALSE,
        report |-> "Unable to synthesize final report. Please review the individual findings above."]

synthesizeReport(reply) ==
  IF reply.ok
    THEN [threw |-> FALSE,
          report |-> IF reply.content # "" THEN reply.content ELSE "Report synthesis failed"]
    ELSE [threw |-> FALSE,
          report |-> "Unable to synthesize final report. Please review the individual findings above."]

\* ------------------------------------------------------------- run state
IdleRun == [pc |-> "idle", step |-> 0, n |-> 0, i |-> 0, outcome |-> ""]

Live(r) == run[r].pc \notin {"idle", "done"}

\* The positions at which a provider call of the run is in flight.
CallPcs == {"plan", "search", "enrich", "summary", "gaps", "synth"}

\* ------------------------------------------- how a stretch of code ends
\* The run suspends at an await: pc names the call in flight, step the
\* step the run is in, n the length of the list being looped over and i the
\* index of the current element.
Await(r, s, pc, step, n, i) ==
  /\ session' = s
  /\ run' = [run EXCEPT ![r] = [pc |-> pc, step |-> step, n |-> n, i |-> i, outcome |-> ""]]
  /\ UNCHANGED tabLoading

\* "if (abortRef.current) return", then the finally clause.
Return(r, s, step) ==
  /\ session' = s
  /\ run' = [run EXCEPT ![r] = [IdleRun EXCEPT !.pc = "done", !.step = step,
                                               !.outcome = "aborted"]]
  /\ tabLoading' = FALSE

\* An exception reaches the catch clause of startResearch, then finally.
Caught(r, s, step) ==
  /\ session' = catchError(s)
  /\ run' = [run EXCEPT ![r] = [IdleRun EXCEPT !.pc = "done", !.step = step,
                                               !.outcome = "failed"]]
  /\ tabLoading' = FALSE

\* Lines 324-328: the check before synthesis, and its dispatch.
StartSynth(r, s, step) ==
  IF abortRef THEN Return(r, s, step)
  ELSE Await(r, updateStepStatus(s, "synthesize", "running"), "synth", 6, 0, 0)

\* Lines 285-291 (step 2) and 317-328 (step 5): the loop is over.
EndSearchStep(r, s, step) ==
  IF step = 2
    THEN LET s1 == updateStepStatus(updateStepResult(s, "search-1", "Completed searches"),
                                    "search-1", "completed")
         IN IF abortRef THEN Return(r, s1, step)
            ELSE Await(r, updateStepStatus(s1, "analyze-1", "running"), "analyze", 3, 0, 0)
    ELSE LET s1 == updateStepStatus(updateStepResult(s, "search-2", "Filled knowledge gaps"),
                                    "search-2", "completed")
         IN StartSynth(r, s1, step)

\* One turn of "for (const q of list) { if (abortRef.current) return; await executeSearch(q)":
\* element i of n is next, or the loop is over.
SearchLoop(r, s, step, n, i) ==
  IF i > n THEN EndSearchStep(r, s, step)
  ELSE IF abortRef THEN Return(r, s, step)
  ELSE Await(r, s, "search", step, n, i)

\* A follow-up branch that leaves the step as it is when there is no gap.
skipFollowUpUnmarked(s) == s

\* Lines 319-322: no gap was found, the follow-up search is skipped.
skipFollowUp(s) ==
  updateStepResult(updateStepStatus(s, "search-2", "completed"),
                   "search-2", "Skipped - no gaps identified")

\* ---------------------------------------------------------- the actions
\* startResearch up to its first await (lines 240-271).  The Start button
\* is rendered, and Enter accepted, only while no session is running.
StartResearch ==
  /\ ~IsRunning
  /\ nRuns < MaxRuns
  /\ nRuns' = nRuns + 1
  /\ abortRef' = FALSE
  /\ session' = updateStepStatus(newSession(nRuns + 1), "plan", "running")
  /\ tabLoading' = TRUE
  /\ run' = [run EXCEPT ![nRuns + 1] = [IdleRun EXCEPT !.pc = "plan", !.step = 1]]
  /\ UNCHANGED <<stopped, searchFailed>>
  /\ UNCHANGED <<cvars, svcvars, srcvars, kwvars, drvars, retryvars>>

\* createResearchPlan returns (lines 271-281).
PlanReturns(r) ==
  /\ run[r].pc = "plan"
  /\ \E reply \in ModelReplies(MaxPlanLines) :
       LET plan == createResearchPlan(reply)
           s1 == updateStepStatus(updateStepResult(session, "plan", "Research plan created"),
                                  "plan", "completed")
       IN IF plan.threw THEN Caught(r, session, 1)
          ELSE IF abortRef THEN Return(r, s1, 1)
          ELSE SearchLoop(r, updateStepStatus(s1, "search-1", "running"), 2, plan.n, 1)
  /\ UNCHANGED <<abortRef, nRuns, stopped, searchFailed>>
  /\ UNCHANGED <<cvars, svcvars, srcvars, kwvars, drvars, retryvars>>

\* braveSearch returns inside executeSearch (lines 123-124): enrichSources
\* fetches the top pages, or with no result the summary call goes out at once.
SearchReturns(r) ==
  /\ run[r].pc = "search"
  /\ \E reply \in SearchReplies :
       /\ searchFailed' = [searchFailed EXCEPT ![r] = @ \/ ~reply.ok]
       /\ LET res == braveSearch(reply)
          IN IF res.threw THEN Caught(r, session, run[r].step)
             ELSE IF enrichSources(res.n) > 0
               THEN Await(r, session, "enrich", run[r].step, run[r].n, run[r].i)
               ELSE Await(r, session, "summary", run[r].step, run[r].n, run[r].i)
  /\ UNCHANGED <<abortRef, nRuns, stopped>>
  /\ UNCHANGED <<cvars, svcvars, srcvars, kwvars, drvars, retryvars>>

\* Promise.all of the page fetches settles (fetchPageContent never throws);
\* the summary call goes out (lines 124-134).
EnrichReturns(r) ==
  /\ run[r].pc = "enrich"
  /\ Await(r, session, "summary", run[r].step, run[r].n, run[r].i)
  /\ UNCHANGED <<abortRef, nRuns, stopped, searchFailed>>
  /\ UNCHANGED <<cvars, svcvars, srcvars, kwvars, drvars, retryvars>>

\* The summary call returns; executeSearch returns to the loop
\* (lines 151-160, then 282-284 or 314-316).
SummaryReturns(r) ==
  /\ run[r].pc = "summary"
  /\ \E reply \in ModelReplies(1) :
       LET res == summarize(reply)
       IN IF res.threw THEN Caught(r, session, run[r].step)
          ELSE SearchLoop(r, session, run[r].step, run[r].n, run[r].i + 1)
  /\ UNCHANGED <<abortRef, nRuns, stopped, searchFailed>>
  /\ UNCHANGED <<cvars, svcvars, srcvars, kwvars, drvars, retryvars>>

\* The one-second timer of the analysis step fires (lines 292-300).
AnalyzeReturns(r) ==
  /\ run[r].pc = "analyze"
  /\ LET s1 == updateStepStatus(updateStepResult(session, "analyze-1", "Analyzed sources"),
                                "analyze-1", "completed")
     IN IF abortRef THEN Return(r, s1, 3)
        ELSE Await(r, updateStepStatus(s1, "followup", "running"), "gaps", 4, 0, 0)
  /\ UNCHANGED <<abortRef, nRuns, stopped, searchFailed>>
  /\ UNCHANGED <<cvars, svcvars, srcvars, kwvars, drvars, retryvars>>

\* identifyGaps returns (lines 300-328).
GapsReturns(r) ==
  /\ run[r].pc = "gaps"
  /\ \E reply \in ModelReplies(MaxGapLines) :
       LET gaps == identifyGaps(reply)
           s1 == updateStepStatus(
                   updateStepResult(session, "followup",
                     IF gaps.n > 0 THEN "Identified knowledge gaps"
                                   ELSE "No significant gaps identified"),
                   "followup", "completed")
       IN IF gaps.threw THEN Caught(r, session, 4)
          ELSE IF abortRef THEN Return(r, s1, 4)
          ELSE IF gaps.n > 0
            THEN SearchLoop(r, updateStepStatus(s1, "search-2", "running"), 5, gaps.n, 1)
            ELSE StartSynth(r, skipFollowUp(s1), 5)
  /\ UNCHANGED <<abortRef, nRuns, stopped, searchFailed>>
  /\ UNCHANGED <<cvars, svcvars, srcvars, kwvars, drvars, retryvars>>

\* synthesizeReport returns (lines 328-338), then finally.
SynthReturns(r) ==
  /\ run[r].pc = "synth"
  /\ \E reply \in ModelReplies(1) :
       LET res == synthesizeReport(reply)
           s1 == updateStepStatus(
                   updateStepResult(setFinalReport(session, res.report), "synthesize",
                                    "Comprehensive research report generated"),
                   "synthesize", "completed")
       IN IF res.threw THEN Caught(r, session, 6)
          ELSE /\ session' = s1
               /\ run' = [run EXCEPT ![r] = [IdleRun EXCEPT !.pc = "done", !.step = 6,
                                                            !.outcome = "completed"]]
               /\ tabLoading' = FALSE
  /\ UNCHANGED <<abortRef, nRuns, stopped, searchFailed>>
  /\ UNCHANGED <<cvars, svcvars, srcvars, kwvars, drvars, retryvars>>

\* stopResearch (lines 372-376); the Stop button is rendered while the
\* session is running.
StopResearch ==
  /\ IsRunning
  /\ abortRef' = TRUE
  /\ session' = [session EXCEPT !.isRunning = FALSE]
  /\ tabLoading' = FALSE
  /\ stopped' = [r \in Runs |-> stopped[r] \/ Live(r)]
  /\ UNCHANGED <<run, nRuns, searchFailed>>
  /\ UNCHANGED <<cvars, svcvars, srcvars, kwvars, drvars, retryvars>>

\* One step of run r: a provider call (or the timer) of r returns.
RunStep(r) ==
  \/ PlanReturns(r)
  \/ SearchReturns(r)
  \/ EnrichReturns(r)
  \/ SummaryReturns(r)
  \/ AnalyzeReturns(r)
  \/ GapsReturns(r)
  \/ SynthReturns(r)

\* ===================================================== the council panel
\* src/unnamed/part_006 (ModelCouncilPanel).

CouncilRuns == 1..MaxCouncils

Range(s) == {s[k] : k \in DOMAIN s}

\* Lines 61-86: the ids of AVAILABLE_MODELS, in order.
AVAILABLE_MODELS == <<"kimi-k2", "kimi-k1.5", "lmstudio">>

\* Line 91: the initial value of selectedModels.
InitialSelection == <<"kimi-k2", "kimi-moonshot">>

\* The first two ids of AVAILABLE_MODELS: the selection line 91 would hold
\* if its second id were one AVAILABLE_MODELS knows.  With InitialSelection
\* every startCouncil throws at line 223 and the panel never has a session;
\* the behaviours that start from KnownSelection show what lines 238-326 do
\* once a session exists.
KnownSelection == SubSeq(AVAILABLE_MODELS, 1, MinSelected)

ModelIds == Range(AVAILABLE_MODELS) \cup Range(InitialSelection)

\* Lines 94-102.
toggleModel(prev, modelId) ==
  IF modelId \in Range(prev) THEN SelectSeq(prev, LAMBDA id : id # modelId)
  ELSE IF Len(prev) >= MaxSelected THEN prev
  ELSE Append(prev, modelId)

\* Lines 104-112: the configuration of a known id, an exception otherwise.
getModelConfig(modelId) ==
  [threw |-> modelId \notin Range(AVAILABLE_MODELS), id |-> modelId]

\* Lines 219-236.  from is the startCouncil invocation whose query the
\* entry belongs to (the session's own for the entries it is created with).
newCouncilSession(id, selected) ==
  [ id        |-> id,
    responses |-> [k \in 1..Len(selected) |->
                     [modelId |-> getModelConfig(selected[k]).id,
                      status |-> "pending", from |-> id]],
    consensus |-> <<>>,
    votes     |-> [m \in ModelIds |-> 0],
    userVote  |-> "",
    isRunning |-> TRUE,
    endTime   |-> FALSE ]

\* Lines 248-256.
setRunning(prev, modelId) ==
  IF prev = Null THEN Null
  ELSE [prev EXCEPT !.responses = [k \in DOMAIN prev.responses |->
          IF prev.responses[k].modelId = modelId
            THEN [prev.responses[k] EXCEPT !.status = "running"]
            ELSE prev.responses[k]]]

\* Lines 242-274 up to the await, for every selected id in turn: the flag
\* was cleared at line 216, so each callback marks its entry running and
\* sends its request.
RECURSIVE dispatchAll(_, _, _)
dispatchAll(prev, selected, k) ==
  IF k > Len(selected) THEN prev
  ELSE dispatchAll(setRunning(prev, selected[k]), selected, k + 1)

\* Lines 114-170: queryModel never throws; it returns a completed or an
\* error response of the invocation r that sent it.
QueryReplies == {"ok", "failed"}

queryModel(modelId, reply, r) ==
  [modelId |-> modelId,
   status |-> IF reply = "ok" THEN "completed" ELSE "error",
   from |-> r]

\* Lines 263-271.
setResult(prev, modelId, result) ==
  IF prev = Null THEN Null
  ELSE [prev EXCEPT !.responses = [k \in DOMAIN prev.responses |->
          IF prev.responses[k].modelId = modelId THEN result
          ELSE prev.responses[k]]]

\* Lines 172-211: the reply of the consensus model call is its content, an
\* empty content, or a failure of the request.
ConsensusReplies == {"content", "empty", "failed"}

\* A consensus analysis without the fallback for an empty content.
analyzeConsensusNoFallback(nValid, reply) ==
  IF nValid < MinValid THEN "Insufficient responses for consensus analysis."
  ELSE IF reply = "content" THEN "analysis"
  ELSE IF reply = "empty" THEN ""
  ELSE "Unable to perform consensus analysis"

analyzeConsensus(nValid, reply) ==
  IF nValid < MinValid THEN "Insufficient responses for consensus analysis."
  ELSE IF reply = "content" THEN "analysis"
  ELSE IF reply = "empty" THEN "Consensus analysis failed"
  ELSE "Unable to perform consensus analysis"

\* Lines 288-293.
setConsensus(prev, consensus) ==
  IF prev = Null THEN Null
  ELSE [prev EXCEPT !.consensus = <<consensus>>, !.isRunning = FALSE,
                    !.endTime = TRUE]

\* Line 295.
setEnded(prev) ==
  IF prev = Null THEN Null
  ELSE [prev EXCEPT !.isRunning = FALSE, !.endTime = TRUE]

\* A vote that forgets to take the previous vote back.
voteForModelKeepsOld(prev, modelId) ==
  IF prev = Null THEN Null
  ELSE [prev EXCEPT !.votes[modelId] = @ + 1, !.userVote = modelId]

\* Lines 307-326.
voteForModel(prev, modelId) ==
  IF prev = Null THEN Null
  ELSE LET newVotes == IF prev.userVote # ""
                         THEN [prev.votes EXCEPT ![prev.userVote] = @ - 1]
                         ELSE prev.votes
       IN [prev EXCEPT !.votes = [newVotes EXCEPT ![modelId] = @ + 1],
                       !.userVote = modelId]

CouncilIsRunning == IF council = Null THEN FALSE ELSE council.isRunning

\* ------------------------------------------- the startCouncil invocations
\* pc: "idle" not invoked yet, "models" suspended at Promise.all (line 276),
\* "consensus" suspended at analyzeConsensus (line 286), "done" returned,
\* "threw" rejected by the exception of getModelConfig.
\* calls[m]: "none" m was not selected, "inflight" queryModel is pending,
\* otherwise what the callback of m returned: the status of its result, or
\* "null" (lines 243, 260).
\* An invocation that returned has no locals left.
IdleCouncilRun == [pc |-> "idle", calls |-> [m \in ModelIds |-> "none"]]

ReturnedCouncilRun == [IdleCouncilRun EXCEPT !.pc = "done"]

CouncilLive(r) == councilRun[r].pc \in {"models", "consensus"}

\* Line 284: the results that are not null and completed.
validResponses(calls) == Cardinality({m \in ModelIds : calls[m] = "completed"})

\* Lines 213-274, to the suspension at line 276.  The handler is reachable
\* through Enter (line 374) and the Query Council button (line 386), both
\* only while the session is not running.
StartCouncil ==
  /\ ~CouncilIsRunning
  /\ \E hasQuery \in BOOLEAN :
       IF ~hasQuery \/ Len(selectedModels) < MinSelected
         THEN UNCHANGED <<council, councilAbortRef, councilLoading,
                          councilRun, nCouncils>>
         ELSE /\ nCouncils < MaxCouncils
              /\ nCouncils' = nCouncils + 1
              /\ councilAbortRef' = FALSE
              /\ IF \E k \in DOMAIN selectedModels :
                      getModelConfig(selectedModels[k]).threw
                   THEN /\ councilRun' = [councilRun EXCEPT
                                            ![nCouncils + 1].pc = "threw"]
                        /\ UNCHANGED <<council, councilLoading>>
                   ELSE /\ council' = dispatchAll(
                             newCouncilSession(nCouncils + 1, selectedModels),
                             selectedModels, 1)
                        /\ councilLoading' = TRUE
                        /\ councilRun' = [councilRun EXCEPT ![nCouncils + 1] =
                             [pc |-> "models",
                              calls |-> [m \in ModelIds |->
                                 IF m \in Range(selectedModels)
                                   THEN "inflight" ELSE "none"]]]
  /\ UNCHANGED <<selectedModels, nToggles, councilStopped>>
  /\ UNCHANGED <<rvars, svcvars, srcvars, kwvars, drvars, retryvars>>

\* queryModel of backend m returns in invocation r (lines 258-274); when it
\* is the last one, Promise.all resolves and the invocation goes on in the
\* same turn of the event loop (lines 276-298).
ModelReturns(r, m) ==
  /\ councilRun[r].pc = "models"
  /\ councilRun[r].calls[m] = "inflight"
  /\ \E reply \in QueryReplies :
       LET result == queryModel(m, reply, r)
           s1 == IF councilAbortRef THEN council
                 ELSE setResult(council, m, result)
           calls1 == [councilRun[r].calls EXCEPT ![m] =
                        IF councilAbortRef THEN "null" ELSE result.status]
           settled == \A k \in ModelIds : calls1[k] # "inflight"
       IN IF ~settled
            THEN /\ council' = s1
                 /\ councilRun' = [councilRun EXCEPT ![r].calls = calls1]
                 /\ UNCHANGED councilLoading
          ELSE IF councilAbortRef
            THEN /\ council' = s1
                 /\ councilLoading' = FALSE
                 /\ councilRun' = [councilRun EXCEPT ![r] = ReturnedCouncilRun]
          ELSE IF validResponses(calls1) >= MinValid
            THEN /\ council' = s1
                 /\ councilRun' = [councilRun EXCEPT ![r] =
                                     [pc |-> "consensus", calls |-> calls1]]
                 /\ UNCHANGED councilLoading
          ELSE /\ council' = setEnded(s1)
               /\ councilLoading' = FALSE
               /\ councilRun' = [councilRun EXCEPT ![r] = ReturnedCouncilRun]
  /\ UNCHANGED <<selectedModels, councilAbortRef, nCouncils, nToggles,
                 councilStopped>>
  /\ UNCHANGED <<rvars, svcvars, srcvars, kwvars, drvars, retryvars>>

\* analyzeConsensus returns in invocation r (lines 286-298).
ConsensusReturns(r) ==
  /\ councilRun[r].pc = "consensus"
  /\ \E reply \in ConsensusReplies :
       council' = setConsensus(council,
                    analyzeConsensus(validResponses(councilRun[r].calls), reply))
  /\ councilLoading' = FALSE
  /\ councilRun' = [councilRun EXCEPT ![r] = ReturnedCouncilRun]
  /\ UNCHANGED <<selectedModels, councilAbortRef, nCouncils, nToggles,
                 councilStopped>>
  /\ UNCHANGED <<rvars, svcvars, srcvars, kwvars, drvars, retryvars>>

\* Lines 301-305; the Stop button exists only while the session is running
\* (line 376).
StopCouncil ==
  /\ CouncilIsRunning
  /\ councilAbortRef' = TRUE
  /\ council' = [council EXCEPT !.isRunning = FALSE]
  /\ councilLoading' = FALSE
  /\ councilStopped' = [councilStopped EXCEPT ![council.id] = TRUE]
  /\ UNCHANGED <<selectedModels, councilRun, nCouncils, nToggles>>
  /\ UNCHANGED <<rvars, svcvars, srcvars, kwvars, drvars, retryvars>>

\* Lines 398-406: a selection button of an AVAILABLE_MODELS id, enabled
\* while the session is not running and the id is selected or fewer than
\* three are.
ToggleModel(m) ==
  /\ ~CouncilIsRunning
  /\ m \in Range(selectedModels) \/ Len(selectedModels) < MaxSelected
  /\ nToggles < MaxToggles
  /\ nToggles' = nToggles + 1
  /\ selectedModels' = toggleModel(selectedModels, m)
  /\ UNCHANGED <<council, councilAbortRef, councilLoading, councilRun,
                 nCouncils, councilStopped>>
  /\ UNCHANGED <<rvars, svcvars, srcvars, kwvars, drvars, retryvars>>

\* Lines 538-541: the vote button of a completed response.
VoteForModel(m) ==
  /\ council # Null
  /\ \E k \in DOMAIN council.responses :
       /\ council.responses[k].modelId = m
       /\ council.responses[k].status = "completed"
  /\ council' = voteForModel(council, m)
  /\ UNCHANGED <<selectedModels, councilAbortRef, councilLoading, councilRun,
                 nCouncils, nToggles, councilStopped>>
  /\ UNCHANGED <<rvars, svcvars, srcvars, kwvars, drvars, retryvars>>

\* One step of invocation r: a backend or the consensus model answers.
CouncilRunStep(r) ==
  \/ \E m \in ModelIds : ModelReturns(r, m)
  \/ ConsensusReturns(r)

\* ==================================================== the council service
\* src/src/services/modelCouncil.ts (ModelCouncilService): one instance
\* with its map of abort controllers, the runCouncil invocations suspended
\* at Promise.all, and a result that voteForBest is applied to.  An aborted
\* fetch rejects at once and its catch and finally blocks run before any
\* other task, so an abort and the settling of the aborted calls are one
\* action.  The API keys and the local URL are taken as present.

ServiceRuns == 1..MaxServiceRuns

\* Lines 33-55: the ids of AVAILABLE_COUNCIL_MODELS, in order.
AVAILABLE_COUNCIL_MODELS == <<"kimi-k2", "kimi-moonshot", "local-qwen">>

ServiceModelIds == Range(AVAILABLE_COUNCIL_MODELS)

\* Line 67: the models of the requested ids.
requestedModels(modelIds) ==
  {AVAILABLE_COUNCIL_MODELS[k] : k \in {j \in DOMAIN AVAILABLE_COUNCIL_MODELS :
                                          AVAILABLE_COUNCIL_MODELS[j] \in modelIds}}

\* Lines 69-76.  A response is "none" (not part of the result), "loading"
\* (isLoading, its call is in flight), "content" or "empty" (settled with a
\* non-empty or an empty content) or "error" (settled with error set).
newCouncilResult(hasQuery, models) ==
  [ pc        |-> "models",
    query     |-> hasQuery,
    responses |-> [m \in ServiceModelIds |->
                     IF m \in models THEN "loading" ELSE "none"],
    consensus |-> <<>> ]

IdleServiceRun ==
  [ pc |-> "idle", query |-> FALSE,
    responses |-> [m \in ServiceModelIds |-> "none"], consensus |-> <<>> ]

\* Lines 238-259 of the service: fewer than two settled responses with a
\* content give the insufficient message; otherwise the text depends on the
\* terms the contents share (agree: more than five common terms).
ServiceConsensusTexts ==
  {"Models agree on key points", "Models provide different perspectives on this topic."}

serviceAnalyzeConsensus(responses, text) ==
  IF Cardinality({m \in ServiceModelIds : responses[m] = "content"}) < MinValid
    THEN "Insufficient responses for consensus analysis."
    ELSE text

\* Lines 117-123: Promise.all resolves once no call of the result is in
\* flight; the consensus is assigned and runCouncil returns.
settleResult(res, text) ==
  IF res.pc = "models" /\ \A m \in ServiceModelIds : res.responses[m] # "loading"
    THEN [res EXCEPT !.pc = "done",
                     !.consensus = <<serviceAnalyzeConsensus(res.responses, text)>>]
    ELSE res

\* Lines 60-82, to the suspension at line 117.
RunCouncil ==
  /\ nServiceRuns < MaxServiceRuns
  /\ \E hasQuery \in BOOLEAN, modelIds \in SUBSET ServiceModelIds,
        text \in ServiceConsensusTexts :
       LET r == nServiceRuns + 1
           models == requestedModels(modelIds)
       IN /\ serviceRun' = [serviceRun EXCEPT ![r] =
                               settleResult(newCouncilResult(hasQuery, models), text)]
          /\ abortControllers' = [m \in ServiceModelIds |->
                                    IF m \in models THEN r ELSE abortControllers[m]]
  /\ nServiceRuns' = nServiceRuns + 1
  /\ UNCHANGED <<votingResults, bestResponseId, activeVote, nServiceVotes, nAborts>>
  /\ UNCHANGED <<rvars, cvars, srcvars, kwvars, drvars, retryvars>>

\* runModel of backend m settles in invocation r (lines 84-115), and
\* Promise.all resolves when it was the last (lines 117-123).
ServiceModelSettles(r, m) ==
  /\ serviceRun[r].pc = "models"
  /\ serviceRun[r].responses[m] = "loading"
  /\ \E reply \in {"content", "empty", "error"}, text \in ServiceConsensusTexts :
       serviceRun' = [serviceRun EXCEPT ![r] =
          settleResult([serviceRun[r] EXCEPT !.responses[m] = reply], text)]
  /\ abortControllers' = [abortControllers EXCEPT ![m] = 0]
  /\ UNCHANGED <<nServiceRuns, votingResults, bestResponseId, activeVote,
                 nServiceVotes, nAborts>>
  /\ UNCHANGED <<rvars, cvars, srcvars, kwvars, drvars, retryvars>>

\* The calls whose controllers are aborted reject: each one's response gets
\* its error (lines 104-109) and a result left with no call in flight is
\* completed.
abortCalls(runs, ids, text) ==
  [r \in ServiceRuns |->
     settleResult([runs[r] EXCEPT !.responses = [m \in ServiceModelIds |->
                      IF m \in ids /\ abortControllers[m] = r
                           /\ runs[r].responses[m] = "loading"
                        THEN "error" ELSE runs[r].responses[m]]], text)]

\* Lines 307-312.
AbortAll ==
  /\ nAborts < MaxAborts
  /\ nAborts' = nAborts + 1
  /\ \E text \in ServiceConsensusTexts :
       serviceRun' = abortCalls(serviceRun,
                        {m \in ServiceModelIds : abortControllers[m] # 0}, text)
  /\ abortControllers' = [m \in ServiceModelIds |-> 0]
  /\ UNCHANGED <<nServiceRuns, votingResults, bestResponseId, activeVote,
                 nServiceVotes>>
  /\ UNCHANGED <<rvars, cvars, srcvars, kwvars, drvars, retryvars>>

\* Lines 314-320.
AbortModel(m) ==
  /\ abortControllers[m] # 0
  /\ \E text \in ServiceConsensusTexts :
       serviceRun' = abortCalls(serviceRun, {m}, text)
  /\ abortControllers' = [abortControllers EXCEPT ![m] = 0]
  /\ UNCHANGED <<nServiceRuns, votingResults, bestResponseId, activeVote,
                 nServiceVotes, nAborts>>
  /\ UNCHANGED <<rvars, cvars, srcvars, kwvars, drvars, retryvars>>

\* Lines 292-303: the id with the most votes, the first such in insertion
\* order; the ids are kept in the order of AVAILABLE_COUNCIL_MODELS here and
\* a tie goes to the id voted into the record first (order).
RECURSIVE findWinner(_, _, _, _, _)
findWinner(votes, order, k, maxVotes, winner) ==
  IF k > Len(order) THEN winner
  ELSE IF votes[order[k]] > maxVotes
    THEN findWinner(votes, order, k + 1, votes[order[k]], order[k])
    ELSE findWinner(votes, order, k + 1, maxVotes, winner)

\* Lines 285-305.  votes[m] = 0 stands for a missing key as well
\* ((votingResults[m] || 0) reads both as 0); order is the insertion order
\* of the keys; active is the id of the most recent call.
voteForBest(result, modelId) ==
  LET order == IF modelId \in Range(result.order) THEN result.order
               ELSE Append(result.order, modelId)
      votes == [result.votes EXCEPT ![modelId] = @ + 1]
  IN [votes |-> votes, order |-> order, active |-> modelId,
      best |-> findWinner(votes, order, 1, 0, "")]

VoteForBest(m) ==
  /\ nServiceVotes < MaxServiceVotes
  /\ nServiceVotes' = nServiceVotes + 1
  /\ LET voted == voteForBest([votes |-> votingResults.votes,
                               order |-> votingResults.order,
                               active |-> activeVote, best |-> bestResponseId], m)
     IN /\ votingResults' = [votes |-> voted.votes, order |-> voted.order]
        /\ activeVote' = voted.active
        /\ bestResponseId' = voted.best
  /\ UNCHANGED <<abortControllers, serviceRun, nServiceRuns, nAborts>>
  /\ UNCHANGED <<rvars, cvars, srcvars, kwvars, drvars, retryvars>>

ServiceAtRest ==
  /\ abortControllers = [m \in ServiceModelIds |-> 0]
  /\ serviceRun = [r \in ServiceRuns |-> IdleServiceRun]
  /\ nServiceRuns = 0
  /\ votingResults = [votes |-> [m \in ServiceModelIds |-> 0], order |-> <<>>]
  /\ bestResponseId = ""
  /\ activeVote = ""
  /\ nServiceVotes = 0
  /\ nAborts = 0

\* ============================================ the sources of a research run
\* src/src/components/DeepResearch.tsx, lines 265-318: the allSources local
\* of startResearch through the two search loops.  The panel's model above
\* keeps the number of sources only; here the loops are followed with the
\* urls kept and the steps' statuses left out.

Urls == {"u1", "u2", "u3", "u4"}

\* The result lists braveSearch can return (search.ts, lines 68-74): up to
\* MaxProvided results, no url twice in one reply.
RECURSIVE ResultListsOfLen(_)
ResultListsOfLen(n) ==
  IF n = 0 THEN {<<>>}
  ELSE {Append(s, u) : s \in ResultListsOfLen(n - 1), u \in Urls} 

ResultLists ==
  {s \in UNION {ResultListsOfLen(n) : n \in 0..MaxProvided} :
     \A i, j \in DOMAIN s : i # j => s[i] # s[j]}

\* search.ts, lines 101-110: the first three sources, each with its url.
enrichSourceList(sources) == SubSeq(sources, 1, Min(Len(sources), EnrichTop))

\* Lines 122-124 and 282-285 (315-317): executeSearch returns the enriched
\* sources and the loop pushes them onto allSources.
pushSources(all, results) == all \o enrichSourceList(results)

\* srcStep: 0 planning, 1 in the loop of search-1, 2 gap analysis,
\* 3 in the loop of search-2, 4 past the searches, 5 ended by a failure.
\* The plan has n sub-queries (lines 271, 279).
SourcesPlanReturns ==
  /\ srcStep = 0
  /\ \E n \in 1..MaxSourceSearches :
       /\ searchesLeft' = n
       /\ srcStep' = 1
  /\ UNCHANGED <<allSources, provided, stepSources>>
  /\ UNCHANGED <<rvars, cvars, svcvars, kwvars, drvars, retryvars>>

\* executeSearch returns in a loop (lines 280-286, 313-318); after the last
\* sub-query the step's result is written with allSources.  A failed
\* braveSearch ends the run (line 339).
SourcesSearchReturns ==
  /\ srcStep \in {1, 3}
  /\ \/ \E results \in ResultLists :
          LET all == pushSources(allSources, results)
              given == [provided EXCEPT ![srcStep] = @ \cup Range(results)]
          IN /\ allSources' = all
             /\ provided' = given
             /\ searchesLeft' = searchesLeft - 1
             /\ IF searchesLeft = 1
                  THEN /\ stepSources' = [stepSources EXCEPT ![srcStep] = <<all>>]
                       /\ srcStep' = srcStep + 1
                  ELSE UNCHANGED <<stepSources, srcStep>>
     \/ /\ srcStep' = 5
        /\ UNCHANGED <<allSources, provided, searchesLeft, stepSources>>
  /\ UNCHANGED <<rvars, cvars, svcvars, kwvars, drvars, retryvars>>

\* identifyGaps returns n gaps (lines 300-322): the loop of search-2 starts,
\* or the step is skipped.
SourcesGapsReturn ==
  /\ srcStep = 2
  /\ \E n \in 0..Min(MaxGapsKept, MaxSourceSearches) :
       /\ searchesLeft' = n
       /\ srcStep' = IF n > 0 THEN 3 ELSE 4
  /\ UNCHANGED <<allSources, provided, stepSources>>
  /\ UNCHANGED <<rvars, cvars, svcvars, kwvars, drvars, retryvars>>

SourcesAtRest ==
  /\ allSources = <<>>
  /\ provided = [k \in {1, 3} |-> {}]
  /\ searchesLeft = 0
  /\ srcStep = 0
  /\ stepSources = [k \in {1, 3} |-> <<>>]

\* ============================================ the keyword heuristics
\* src/unnamed/part_006, lines 328-345 (getConsensusHighlights) and
\* src/src/services/modelCouncil.ts, lines 238-259 (analyzeConsensus).
\* A response text is the sequence of its chunks between white space, which
\* is what split(/\s+/) returns; the empty text is <<>>.

MinWordLen == 4
MaxKeywords == 5
AgreeThreshold == 5

KwChunks == {"Solar", "solar", "energy.", "is"}

\* String.prototype.toLowerCase on the chunks.
toLowerCase(w) == IF w = "Solar" THEN "solar" ELSE w

\* replace(/[^\w\s]/g, '') on the chunks.
stripPunctuation(w) == IF w = "energy." THEN "energy" ELSE w

RECURSIVE KwTextsOfLen(_)
KwTextsOfLen(n) ==
  IF n = 0 THEN {<<>>}
  ELSE {Append(s, w) : s \in KwTextsOfLen(n - 1), w \in KwChunks}

\* The texts of up to MaxKwWords chunks, and the two-chunk texts said
\* three times over.
KwTexts ==
  UNION {KwTextsOfLen(n) : n \in 0..MaxKwWords}
    \cup {s \o s \o s : s \in KwTextsOfLen(2)}

\* A response that completed with its text, or one that failed: the panel
\* stores response '' with status error (part_006, line 164), the service
\* content '' with error set (modelCouncil.ts, lines 104-109).
KwResponseValues ==
  {[status |-> "completed", text |-> s] : s \in KwTexts}
    \cup {[status |-> "error", text |-> <<>>]}

\* The lists of n responses.
KwResponseLists(n) == [1..n -> KwResponseValues]

\* [...new Set(words)]: the first occurrence of every word, in order.
RECURSIVE uniqueWords(_)
uniqueWords(words) ==
  IF words = <<>> THEN <<>>
  ELSE LET rest == uniqueWords(SubSeq(words, 1, Len(words) - 1))
           w == words[Len(words)]
       IN IF w \in Range(rest) THEN rest ELSE Append(rest, w)

\* words.slice(0, n)
sliceWords(words, n) == SubSeq(words, 1, Min(Len(words), n))

\* part_006, line 334: toLowerCase().split(/\s+/).filter(w => w.length > 4)
panelWords(text) ==
  LET long(w) == Len(w) > MinWordLen
  IN SelectSeq([k \in DOMAIN text |-> toLowerCase(text[k])], long)

\* modelCouncil.ts, lines 243-248: the same with the punctuation removed.
serviceTerms(text) ==
  LET term(w) == stripPunctuation(toLowerCase(w))
      long(w) == Len(w) > MinWordLen
  IN SelectSeq([k \in DOMAIN text |-> term(text[k])], long)

\* A filter that keeps a word of the first response found in some response.
commonWordsSome(allWords) ==
  LET inSome(word) == \E k \in DOMAIN allWords : word \in Range(allWords[k])
  IN SelectSeq(allWords[1], inSome)

\* allWords[0].filter(word => allWords.every(words => words.includes(word)))
commonWords(allWords) ==
  LET inEvery(word) == \A k \in DOMAIN allWords : word \in Range(allWords[k])
  IN SelectSeq(allWords[1], inEvery)

\* part_006, lines 328-345.
getConsensusHighlights(responses) ==
  LET completed(r) == r.status = "completed"
      validResps == SelectSeq(responses, completed)
      words(r) == panelWords(r.text)
      allWords == [k \in DOMAIN validResps |-> words(validResps[k])]
  IN IF Len(validResps) < MinValid THEN Null
     ELSE [agreementCount |-> Len(validResps),
           commonKeywords |-> sliceWords(uniqueWords(commonWords(allWords)), MaxKeywords)]

\* modelCouncil.ts, lines 238-259: the message, with the terms it lists.
consensusMessage(responses) ==
  LET done(r) == r.status = "completed" /\ r.text # <<>>
      completed == SelectSeq(responses, done)
      terms(r) == serviceTerms(r.text)
      allTerms == [k \in DOMAIN completed |-> terms(completed[k])]
      commonTerms == commonWords(allTerms)
  IN IF Len(completed) < MinValid
       THEN [text |-> "Insufficient responses for consensus analysis.", terms |-> <<>>]
     ELSE IF Len(commonTerms) > AgreeThreshold
       THEN [text |-> "Models agree on key points including: ",
             terms |-> sliceWords(commonTerms, MaxKeywords)]
     ELSE [text |-> "Models provide different perspectives on this topic.", terms |-> <<>>]

\* The panel renders the highlights of the session's responses (line 447).
GetConsensusHighlights ==
  /\ kwHighlights = <<>>
  /\ kwHighlights' = <<getConsensusHighlights(kwResponses)>>
  /\ UNCHANGED <<kwResponses, kwConsensus>>
  /\ UNCHANGED <<rvars, cvars, svcvars, srcvars, drvars, retryvars>>

\* runCouncil asks for the consensus of the result's responses (line 120).
AnalyzeConsensus ==
  /\ kwConsensus = <<>>
  /\ kwConsensus' = <<consensusMessage(kwResponses)>>
  /\ UNCHANGED <<kwResponses, kwHighlights>>
  /\ UNCHANGED <<rvars, cvars, svcvars, srcvars, drvars, retryvars>>

KeywordsAtRest ==
  /\ kwResponses = <<>>
  /\ kwHighlights = <<>>
  /\ kwConsensus = <<>>

\* ========================================== the deep-research service
\* src/unnamed/part_011 (DeepResearchService).

ResearchCalls == 1..MaxResearchCalls

GapAspects == 3

\* pc: idle, search (await braveSearch), enrich (await enrichSources),
\* returned (the report was returned) or rejected (with error).
IdleResearchCall ==
  [pc |-> "idle", stepCount |-> 0, maxSteps |-> 0, words |-> 0, error |-> ""]

\* Lines 124-137: one gap if the query has more than three words.
serviceIdentifyGaps(words) == IF words > GapAspects THEN 1 ELSE 0

\* Lines 139-141: one follow-up query per gap.
generateFollowUpQueries(gaps) == gaps

\* Lines 65-74 and 105-116: the head of the while loop up to await
\* braveSearch, or, the loop being over, the report is returned.
loopHead(c, aborted) ==
  IF c.stepCount < c.maxSteps
    THEN IF aborted
           THEN [c EXCEPT !.pc = "rejected", !.error = "Research aborted"]
           ELSE [c EXCEPT !.pc = "search", !.stepCount = @ + 1]
    ELSE [c EXCEPT !.pc = "returned"]

InProgress(r) == researchCall[r].pc \in {"search", "enrich"}

\* executeResearch up to its first await (lines 50-74): a new controller
\* replaces the stored one.
ExecuteResearch ==
  /\ nResearchCalls < MaxResearchCalls
  /\ LET r == nResearchCalls + 1
     IN \E maxSteps \in 0..MaxSteps, words \in 1..MaxQueryWords :
          /\ nResearchCalls' = r
          /\ abortController' = r
          /\ signalAborted' = [signalAborted EXCEPT ![r] = FALSE]
          /\ researchCall' =
               [researchCall EXCEPT ![r] =
                  loopHead([IdleResearchCall EXCEPT !.maxSteps = maxSteps,
                                                    !.words = words], FALSE)]
  /\ UNCHANGED abortSeen
  /\ UNCHANGED <<rvars, cvars, svcvars, srcvars, kwvars, retryvars>>

\* braveSearch returns or throws (line 74); the signal is not given to it.
ResearchSearchReturns(r) ==
  /\ researchCall[r].pc = "search"
  /\ \/ researchCall' = [researchCall EXCEPT ![r].pc = "enrich"]
     \/ researchCall' = [researchCall EXCEPT ![r].pc = "rejected",
                                             ![r].error = "Brave API error"]
  /\ UNCHANGED <<abortController, signalAborted, nResearchCalls, abortSeen>>
  /\ UNCHANGED <<rvars, cvars, svcvars, srcvars, kwvars, retryvars>>

\* enrichSources returns (line 75); lines 77-107 follow, then the head of
\* the loop again or the report (lines 109-116).
ResearchEnrichReturns(r) ==
  /\ researchCall[r].pc = "enrich"
  /\ LET c == researchCall[r]
         gaps == serviceIdentifyGaps(c.words)
         nextQueries == generateFollowUpQueries(gaps)
     IN researchCall' =
          [researchCall EXCEPT ![r] =
             IF gaps = 0 \/ nextQueries = 0
               THEN [c EXCEPT !.pc = "returned"]
               ELSE loopHead(c, signalAborted[r])]
  /\ UNCHANGED <<abortController, signalAborted, nResearchCalls, abortSeen>>
  /\ UNCHANGED <<rvars, cvars, svcvars, srcvars, kwvars, retryvars>>

\* abort() (lines 46-48): the stored controller, if any, is aborted.
AbortResearch ==
  /\ signalAborted' = [r \in ResearchCalls |->
                         signalAborted[r] \/ r = abortController]
  /\ abortSeen' = [r \in ResearchCalls |-> abortSeen[r] \/ InProgress(r)]
  /\ UNCHANGED <<abortController, researchCall, nResearchCalls>>
  /\ UNCHANGED <<rvars, cvars, svcvars, srcvars, kwvars, retryvars>>

ResearchServiceAtRest ==
  /\ abortController = 0
  /\ signalAborted = [r \in ResearchCalls |-> FALSE]
  /\ researchCall = [r \in ResearchCalls |-> IdleResearchCall]
  /\ nResearchCalls = 0
  /\ abortSeen = [r \in ResearchCalls |-> FALSE]

\* ============================================================ withRetry
\* src/src/services/retry.ts.

DefaultMaxRetries == 3

\* An option that is left out.
Absent == "absent"

\* options.maxRetries: <<>> if left out, else <<the number>>.
MaxRetriesGiven == {<<>>} \cup {<<n>> : n \in 0..MaxRetryLimit}

\* What options.shouldRetry can be: left out, a test for a transient error,
\* or a function that never retries.
RetryPolicies == {Absent, "timeoutOnly", "never"}

\* The values fn can resolve with.
FnValues == {"v1", "v2"}

\* The values fn can reject with: two Error objects and a string.
ThrownValues ==
  { [isError |-> TRUE, message |-> "timeout"],
    [isError |-> TRUE, message |-> "denied"],
    [isError |-> FALSE, message |-> "timeout"] }

\* Line 23: { ...defaultOptions, ...options }
mergeOptions(maxRetries, policy) ==
  [maxRetries |-> IF maxRetries = <<>> THEN DefaultMaxRetries ELSE maxRetries[1],
   shouldRetry |-> policy]

\* Line 30: error instanceof Error ? error : new Error(String(error))
asError(error) ==
  IF error.isError THEN error ELSE [isError |-> TRUE, message |-> error.message]

\* opts.shouldRetry(error), for the function given.
shouldRetry(policy, error) ==
  IF policy = "timeoutOnly" THEN error.message = "timeout" ELSE FALSE

\* A catch block that goes on after an error shouldRetry turns down.
afterCatchAlwaysRetries(opts, n, error) ==
  IF n = opts.maxRetries THEN "rejected" ELSE "waiting"

\* Lines 32-40: where the catch block leaves the call.
afterCatch(opts, n, error) ==
  IF opts.shouldRetry # Absent /\ ~shouldRetry(opts.shouldRetry, error) THEN "rejected"
  ELSE IF n = opts.maxRetries THEN "rejected"
  ELSE "waiting"

\* withRetry up to the first await fn() (lines 18-28); attempt = 0 passes
\* the loop test for every maxRetries >= 0.
WithRetry ==
  /\ retryPc = "idle"
  /\ \E maxRetries \in MaxRetriesGiven, policy \in RetryPolicies :
       retryOpts' = mergeOptions(maxRetries, policy)
  /\ attempt' = 0
  /\ retryPc' = "calling"
  /\ UNCHANGED <<lastError, retryOutcome, fnOutcomes>>
  /\ UNCHANGED <<rvars, cvars, svcvars, srcvars, kwvars, drvars>>

\* fn() resolves: return await fn() (line 28).
FnResolves ==
  /\ retryPc = "calling"
  /\ \E v \in FnValues :
       /\ retryOutcome' = <<v>>
       /\ fnOutcomes' = Append(fnOutcomes, [ok |-> TRUE, value |-> v])
  /\ retryPc' = "resolved"
  /\ UNCHANGED <<retryOpts, attempt, lastError>>
  /\ UNCHANGED <<rvars, cvars, svcvars, srcvars, kwvars, drvars>>

\* fn() rejects: the catch block (lines 29-44) up to the throw or the
\* await of the timer.
FnRejects ==
  /\ retryPc = "calling"
  /\ \E error \in ThrownValues :
       LET e == asError(error)
           pc == afterCatch(retryOpts, attempt, e)
       IN /\ lastError' = <<e>>
          /\ fnOutcomes' = Append(fnOutcomes, [ok |-> FALSE, value |-> error])
          /\ retryPc' = pc
          /\ retryOutcome' = IF pc = "rejected" THEN <<e>> ELSE retryOutcome
  /\ UNCHANGED <<retryOpts, attempt>>
  /\ UNCHANGED <<rvars, cvars, svcvars, srcvars, kwvars, drvars>>

\* The timer of line 43 fires: attempt++, the loop test (line 26), and
\* fn() is called again, or the throw of line 47.
TimerFires ==
  /\ retryPc = "waiting"
  /\ attempt' = attempt + 1
  /\ IF attempt + 1 <= retryOpts.maxRetries
       THEN /\ retryPc' = "calling"
            /\ UNCHANGED retryOutcome
       ELSE /\ retryPc' = "rejected"
            /\ retryOutcome' = lastError
  /\ UNCHANGED <<retryOpts, lastError, fnOutcomes>>
  /\ UNCHANGED <<rvars, cvars, svcvars, srcvars, kwvars, drvars>>

RetryAtRest ==
  /\ retryOpts = mergeOptions(<<>>, Absent)
  /\ attempt = 0
  /\ retryPc = "idle"
  /\ lastError = <<>>
  /\ retryOutcome = <<>>
  /\ fnOutcomes = <<>>

\* ------------------------------------------------------ specifications
ResearchAtRest ==
  /\ session = Null
  /\ abortRef = FALSE
  /\ tabLoading = FALSE
  /\ run = [r \in Runs |-> IdleRun]
  /\ nRuns = 0
  /\ stopped = [r \in Runs |-> FALSE]
  /\ searchFailed = [r \in Runs |-> FALSE]

CouncilAtRest ==
  /\ council = Null
  /\ councilAbortRef = FALSE
  /\ councilLoading = FALSE
  /\ councilRun = [r \in CouncilRuns |-> IdleCouncilRun]
  /\ nCouncils = 0
  /\ nToggles = 0
  /\ councilStopped = [r \in CouncilRuns |-> FALSE]

Init ==
  /\ ResearchAtRest
  /\ CouncilAtRest
  /\ ServiceAtRest
  /\ SourcesAtRest
  /\ KeywordsAtRest
  /\ ResearchServiceAtRest
  /\ RetryAtRest
  /\ selectedModels = InitialSelection

Next ==
  \/ StartResearch
  \/ StopResearch
  \/ \E r \in Runs : RunStep(r)

Spec == Init /\ [][Next]_vars

\* A provider call (or the timer) that is pending eventually returns or
\* fails: while some run is suspended, one of the suspended runs resumes.
\* A suspended run stays suspended until it resumes, and each run resumes
\* finitely often, so this gives every run its turn.
FairSpec == Spec /\ WF_vars(\E r \in Runs : RunStep(r))

\* The council panel, with the research panel at rest.
CouncilInit ==
  /\ ResearchAtRest
  /\ CouncilAtRest
  /\ ServiceAtRest
  /\ SourcesAtRest
  /\ KeywordsAtRest
  /\ ResearchServiceAtRest
  /\ RetryAtRest
  /\ selectedModels \in {InitialSelection, KnownSelection}

CouncilNext ==
  \/ StartCouncil
  \/ StopCouncil
  \/ \E m \in Range(AVAILABLE_MODELS) : ToggleModel(m)
  \/ \E m \in ModelIds : VoteForModel(m)
  \/ \E r \in CouncilRuns : CouncilRunStep(r)

CouncilSpec == CouncilInit /\ [][CouncilNext]_vars

\* A backend or consensus request that is pending eventually answers or
\* fails.
FairCouncilSpec ==
  CouncilSpec /\ WF_vars(\E r \in CouncilRuns : CouncilRunStep(r))

\* The council service, with everything else at rest.
ServiceInit ==
  /\ ResearchAtRest
  /\ CouncilAtRest
  /\ selectedModels = InitialSelection
  /\ ServiceAtRest
  /\ SourcesAtRest
  /\ KeywordsAtRest
  /\ ResearchServiceAtRest
  /\ RetryAtRest

ServiceNext ==
  \/ RunCouncil
  \/ \E r \in ServiceRuns, m \in ServiceModelIds : ServiceModelSettles(r, m)
  \/ AbortAll
  \/ \E m \in ServiceModelIds : AbortModel(m)

ServiceSpec == ServiceInit /\ [][ServiceNext]_vars

\* voteForBest reads and writes nothing but the result it is given: its
\* calls on one result, with everything else at rest.
VotingNext == \E m \in ServiceModelIds : VoteForBest(m)

VotingSpec == ServiceInit /\ [][VotingNext]_vars

\* The sources of one research run, with everything else at rest.
SourcesNext ==
  \/ SourcesPlanReturns
  \/ SourcesSearchReturns
  \/ SourcesGapsReturn

SourcesSpec == ServiceInit /\ [][SourcesNext]_vars

\* The keyword heuristics applied to a list of responses.
KeywordInit ==
  /\ ResearchAtRest
  /\ CouncilAtRest
  /\ selectedModels = InitialSelection
  /\ ServiceAtRest
  /\ SourcesAtRest
  /\ \E n \in 1..MaxKwResponses : kwResponses \in KwResponseLists(n)
  /\ kwHighlights = <<>>
  /\ kwConsensus = <<>>
  /\ ResearchServiceAtRest
  /\ RetryAtRest

KeywordNext ==
  \/ GetConsensusHighlights
  \/ AnalyzeConsensus

KeywordSpec == KeywordInit /\ [][KeywordNext]_vars

\* The deep-research service, with everything else at rest.
ResearchServiceNext ==
  \/ ExecuteResearch
  \/ \E r \in ResearchCalls : ResearchSearchReturns(r)
  \/ \E r \in ResearchCalls : ResearchEnrichReturns(r)
  \/ AbortResearch

ResearchServiceSpec == ServiceInit /\ [][ResearchServiceNext]_vars

\* One call of withRetry, with everything else at rest.
RetryNext ==
  \/ WithRetry
  \/ FnResolves
  \/ FnRejects
  \/ TimerFires

RetrySpec == ServiceInit /\ [][RetryNext]_vars

\* ------------------------------------------------------------ the claims
Status(k) == session.steps[k].status

StepNos == 1..Len(StepIds)

Terminal == {"completed", "error"}

AllCompleted == \A k \in StepNos : Status(k) = "completed"

\* Run r moves to a position at which a provider call it has just sent is
\* in flight.
Dispatches(r) ==
  /\ run'[r].pc \in CallPcs
  /\ <<run'[r].pc, run'[r].step, run'[r].i>> # <<run[r].pc, run[r].step, run[r].i>>

\* C1: while startResearch has been invoked once only, the steps run in
\* the fixed order: a step that has left pending has every earlier step
\* completed and every later step pending or, for the step itself, is the
\* only one running.
C1_StrictStepOrder ==
  nRuns = 1 =>
    /\ \A k \in StepNos : Status(k) # "pending" =>
         \A j \in 1..(k - 1) : Status(j) = "completed"
    /\ Cardinality({k \in StepNos : Status(k) = "running"}) <= 1
    /\ \A k \in StepNos : Status(k) \in {"pending", "running", "completed"}

C1_Witness ==
  /\ nRuns = 1
  /\ Status(5) = "running"
  /\ \A j \in 1..4 : Status(j) = "completed"

\* C2: once stopResearch has been called on a run, no step of that run
\* changes the session.  Stated for the case most favourable to the code:
\* the flag the stop has set is still set (no later startResearch reset it).
C2_NoChangeAfterStop ==
  [][\A r \in Runs : (stopped[r] /\ abortRef /\ run'[r] # run[r])
                       => session' = session]_vars

\* C3: once stopResearch has been called on a run, that run dispatches no
\* new provider call.  Stated for the case most favourable to the code:
\* the flag the stop has set is still set (no later startResearch reset it).
C3_NoDispatchAfterStop ==
  [][\A r \in Runs : (stopped[r] /\ abortRef) => ~Dispatches(r)]_vars

\* C4: a run never modifies a session that another startResearch created.
C4_EarlierRunLeavesNewSession ==
  [][\A r \in Runs : (session # Null /\ session.id # r /\ run'[r] # run[r])
                       => session' = session]_vars

\* C5: within one session a step that is completed or error stays so.
C5_StatusMonotonic ==
  [][(session # Null /\ session'.id = session.id) =>
       \A k \in StepNos : Status(k) \in Terminal => session'.steps[k].status \in Terminal]_vars

\* C6: with every provider call returning, a running session eventually is
\* non-running; stopResearch leaves it non-running at once, and only
\* startResearch makes a session running.
C6_EventuallyNotRunning ==
  /\ IsRunning ~> ~IsRunning
  /\ [][StopResearch => ~IsRunning']_vars
  /\ [][(~IsRunning /\ IsRunning') => nRuns' = nRuns + 1]_vars

C6_Witness ==
  \E r \in Runs : /\ run[r].pc = "done" /\ run[r].outcome = "failed"
                  /\ session.id = r /\ ~IsRunning /\ ~stopped[r]

\* C7: a session with endTime set has a finalReport, and it is not empty.
C7_CompletedHasReport ==
  (session # Null /\ session.endTime) =>
    (Len(session.finalReport) = 1 /\ session.finalReport[1] # "")

C7_Witness ==
  /\ session # Null /\ session.endTime
  /\ session.finalReport = <<"Report synthesis failed">>

\* C8: a run whose initial search failed has ended in step 2 without
\* starting a later step, and the session it created is non-running and has
\* no finalReport.
C8_InitialSearchFailureStops ==
  \A r \in Runs :
    (run[r].pc = "done" /\ searchFailed[r] /\ run[r].step <= 2)
      => /\ run[r].step = 2 /\ run[r].outcome = "failed"
         /\ session.id = r => (~session.isRunning /\ session.finalReport = <<>>)

\* C9: no run is ended by a failure of a follow-up search.
C9_FollowUpFailureGoesOn ==
  \A r \in Runs : ~(run[r].pc = "done" /\ run[r].outcome = "failed" /\ run[r].step = 5)

\* C10: with no stop requested, a run none of whose search calls failed
\* ends completed, and leaves its session non-running with all six steps
\* completed, endTime set and a finalReport.
C10_ModelFailuresNeverAbort ==
  \A r \in Runs :
    (run[r].pc = "done" /\ ~searchFailed[r] /\ \A q \in Runs : ~stopped[q])
      => /\ run[r].outcome = "completed"
         /\ session.id = r =>
              /\ AllCompleted
              /\ ~session.isRunning
              /\ session.endTime
              /\ Len(session.finalReport) = 1

C10_Witness ==
  \E r \in Runs :
    /\ run[r].pc = "done" /\ ~searchFailed[r] /\ \A q \in Runs : ~stopped[q]
    /\ session.id = r /\ AllCompleted
    /\ session.finalReport[1] =
         "Unable to synthesize final report. Please review the individual findings above."

\* C11: when gap analysis of run r returns no gap and the run goes on (it
\* is not ended by a stop), then in the same stretch of code the follow-up
\* step is completed with the Skipped result and the only call the run sends
\* is the synthesis call: no search, enrichment or summary call lies between.
C11_NoGapsSkipsFollowUp ==
  [][\A r \in Runs :
       (/\ run[r].pc = "gaps" /\ run'[r] # run[r] /\ run'[r].pc # "done"
        /\ session'.steps[4].result = "No significant gaps identified")
       => /\ session'.steps[4].status = "completed"
          /\ session'.steps[5].status = "completed"
          /\ session'.steps[5].result = "Skipped - no gaps identified"
          /\ run'[r].pc = "synth"
          /\ session'.steps[6].status = "running"]_vars

C11_Witness ==
  /\ nRuns = 1 /\ run[1].pc = "synth"
  /\ session.steps[4].result = "No significant gaps identified"
  /\ session.steps[5].result = "Skipped - no gaps identified"
  /\ session.steps[5].status = "completed"

\* ------------------------------------------------ the council's claims
ResponseIds(s) == [k \in DOMAIN s.responses |-> s.responses[k].modelId]

CouncilStatus(s, m) ==
  {s.responses[k].status : k \in {j \in DOMAIN s.responses : s.responses[j].modelId = m}}

\* Backend m answers in invocation r in this step.
Answers(r, m) ==
  /\ councilRun[r].calls[m] = "inflight"
  /\ councilRun'[r].calls[m] # "inflight"

\* C12: every startCouncil invocation with a non-empty query and at least
\* two selected backends (one that passes line 214) leaves a session of its
\* own whose responses list is the selection, one entry per selected id in
\* order, each entry as created (pending, or running once its request has
\* been sent in the same stretch of code).
C12_StartCreatesSession ==
  [][nCouncils' # nCouncils =>
       /\ council' # Null
       /\ council'.id = nCouncils'
       /\ ResponseIds(council') = selectedModels
       /\ \A k \in DOMAIN council'.responses :
            council'.responses[k].status \in {"pending", "running"}]_vars

NoCouncilStopped == \A q \in CouncilRuns : ~councilStopped[q]

AllTerminal(s) == \A k \in DOMAIN s.responses : s.responses[k].status \in Terminal

RECURSIVE SumVotes(_, _)
SumVotes(votes, ids) ==
  IF ids = {} THEN 0
  ELSE LET m == CHOOSE x \in ids : TRUE
       IN votes[m] + SumVotes(votes, ids \ {m})

C21_VoteForBestMovesVote ==
  [][\A m \in ServiceModelIds :
       (nServiceVotes' # nServiceVotes /\ activeVote' = m) =>
         /\ (activeVote = m => votingResults'.votes = votingResults.votes)
         /\ (activeVote \notin {"", m} =>
               votingResults'.votes[activeVote] = votingResults.votes[activeVote] - 1)
         /\ SumVotes(votingResults'.votes, ServiceModelIds) <= 1]_vars

\* C22: a runCouncil invocation with an empty query or with fewer than two
\* backends sends no request and leaves no result.
C22_InvalidRequestRejected ==
  [][\A r \in ServiceRuns :
       (/\ serviceRun[r].pc = "idle" /\ serviceRun'[r].pc # "idle"
        /\ \/ ~serviceRun'[r].query
           \/ Cardinality({m \in ServiceModelIds :
                             serviceRun'[r].responses[m] # "none"}) < MinSelected)
       => /\ serviceRun'[r].pc \notin {"models", "done"}
          /\ \A m \in ServiceModelIds : serviceRun'[r].responses[m] # "loading"]_vars

\* C27: after an abortAll call no backend call that was in flight when it
\* was called is still in flight.
C27_AbortAllAbortsEveryCall ==
  [][nAborts' # nAborts =>
       \A r \in ServiceRuns, m \in ServiceModelIds :
         serviceRun[r].responses[m] = "loading" =>
           serviceRun'[r].responses[m] # "loading"]_vars

\* ------------------------------------------------ the sources' claims
\* C23: the source collection of a run never holds the same url twice.
C23_NoDuplicateUrl ==
  \A i, j \in DOMAIN allSources : i # j => allSources[i] # allSources[j]

\* C24: the sources written with the result of a completed search step
\* contain every url braveSearch returned for the sub-queries of that step.
C24_NoSourceLost ==
  \A k \in DOMAIN stepSources :
    stepSources[k] # <<>> => provided[k] \subseteq Range(stepSources[k][1])

\* ------------------------------------------- the research panel, again
\* C26: a session has a finalReport only if its synthesize step is
\* completed.
C26_ReportOnlyWhenSynthesized ==
  (session # Null /\ session.finalReport # <<>>) => Status(6) = "completed"

\* C28: a session that is not running, with no invocation of startResearch
\* still under way, has no step with status running.
C28_NoRunningStepAtRest ==
  (session # Null /\ ~session.isRunning /\ \A r \in Runs : ~Live(r)) =>
    \A k \in StepNos : Status(k) # "running"

\* ------------------------------------------------ the keywords' claim
\* The responses of the call that completed: for the panel those with
\* status completed, for the service those that also have a content.
KwCompleted == {k \in DOMAIN kwResponses : kwResponses[k].status = "completed"}

KwCompletedWithContent == {k \in KwCompleted : kwResponses[k].text # <<>>}

\* C25: every keyword returned by the consensus heuristics is longer than
\* four characters and is a word of every completed response; a word
\* missing from one completed response is not returned.
C25_KeywordsInEveryResponse ==
  /\ (kwHighlights # <<>> /\ kwHighlights[1] # Null) =>
       \A w \in Range(kwHighlights[1].commonKeywords) :
         /\ Len(w) > 4
         /\ \A k \in KwCompleted :
              \E c \in Range(kwResponses[k].text) : w = toLowerCase(c)
  /\ kwConsensus # <<>> =>
       \A w \in Range(kwConsensus[1].terms) :
         /\ Len(w) > 4
         /\ \A k \in KwCompletedWithContent :
              LET term(c) == stripPunctuation(toLowerCase(c))
              IN \E c \in Range(kwResponses[k].text) : w = term(c)

\* Both heuristics returned keywords, for responses of which one has a word
\* longer than four characters that another lacks.
C25_Witness ==
  /\ kwHighlights # <<>>
  /\ kwHighlights[1] # Null
  /\ kwHighlights[1].commonKeywords # <<>>
  /\ kwConsensus # <<>>
  /\ kwConsensus[1].terms # <<>>
  /\ \E j, k \in KwCompleted :
       \E w \in Range(panelWords(kwResponses[j].text)) :
         w \notin Range(panelWords(kwResponses[k].text))

\* ---------------------------------------- the deep-research service's claim
\* C29: an executeResearch call during which abort() was called does not
\* return a report.
C29_AbortedCallReturnsNoReport ==
  \A r \in ResearchCalls : abortSeen[r] => researchCall[r].pc # "returned"

\* ------------------------------------------------------ withRetry's claim
\* fn has been called once per outcome, and once more while a call is in
\* flight.
FnCalls == Len(fnOutcomes) + (IF retryPc = "calling" THEN 1 ELSE 0)

\* An outcome after which the claim has withRetry stop.
Final(o) ==
  \/ o.ok
  \/ retryOpts.shouldRetry # Absent /\ ~shouldRetry(retryOpts.shouldRetry, asError(o.value))

RetryOver == retryPc \in {"resolved", "rejected"}

\* fn is called at most maxRetries + 1 times, and never again after an
\* attempt that succeeded or failed with an error shouldRetry turns down.
RetryStops ==
  /\ FnCalls <= retryOpts.maxRetries + 1
  /\ \A k \in 1..(FnCalls - 1) : ~Final(fnOutcomes[k])
  /\ (retryPc = "waiting" => ~Final(fnOutcomes[Len(fnOutcomes)]))

====
